---- MODULE Spec2Model ----
(***************************************************************************)
(* Zintle waitlist backend: the POST /api/waitlist signup pipeline, the    *)
(* GET /api/stats counter, the WebSocket fan-out, the welcome-email        *)
(* dispatcher, POST /api/send-update with its batched progress update,     *)
(* GET /api/analytics, GET /api/analytics/comprehensive, GET /dashboard    *)
(* and the landing page's ZintleWaitlist client, as a state machine.       *)
(* Every await of a handler is a step boundary; the store executes each    *)
(* query and each transaction atomically.                                  *)
(***************************************************************************)
EXTENDS Integers, Sequences, FiniteSets, TLC

\* ------------------------------------------------------------------ bounds
MaxReq == 2          \* POST /api/waitlist requests per behaviour
MaxClients == 2      \* WebSocket connections per behaviour
MaxStored == 2       \* signups stored when a report is requested

Reqs == 1..MaxReq
Clients == 1..MaxClients

\* ------------------------------------------------------- program constants
TotalSpots == 500    \* the literal of Math.max(500 - totalSignups, 0)

QIDs == {"primary_skill", "biggest_challenge", "interest_level"}

\* Store sizes the behaviours start from: an empty store, and one signup
\* short of the 500-spot cap.
SeedSizes == {0, TotalSpots - 1}

\* const batchSize = 50 of sendProgressUpdate
batchSize == 50

\* take: 50 of the dashboard's user list
dashboardTake == 50

\* The static values the landing page shows when it cannot load the stats
fallbackCount == 1247
fallbackSpots == 253

\* The numbers of signups stored when a progress update is sent: none, one,
\* around one batch, two full batches, and 120.
UpdateSeeds ==
    {0, 1, batchSize - 1, batchSize, batchSize + 1, 2 * batchSize,
     2 * batchSize + 20}

\* -------------------------------------------------------------- request body
Fields == {"email", "primarySkill", "biggestChallenge", "interestLevel"}

\* A body: the fields present (has) and their values.  interestLevel is a
\* number, kept in tenths (25 is 2.5).
Body(h, e, s, c, l) ==
    [has |-> h, email |-> e, primarySkill |-> s, biggestChallenge |-> c,
     interestLevel |-> l]

NoBody == Body({}, "", "", "", 0)

Bodies ==
    { Body(Fields, "a@x.com", "design", "finding_clients", 50),
      Body(Fields, "b@x.com", "writing", "payment_delays", 25),
      Body(Fields, "a@x.com", "writing", "payment_delays", 25),
      Body(Fields, "not-an-email", "design", "finding_clients", 50),
      Body(Fields, "a@x.com", "design", "finding_clients", 0),
      Body(Fields \ {"email"}, "", "design", "finding_clients", 50),
      Body(Fields \ {"primarySkill"}, "a@x.com", "", "finding_clients", 50),
      Body(Fields \ {"biggestChallenge"}, "b@x.com", "design", "", 50),
      Body(Fields \ {"interestLevel"}, "b@x.com", "design", "finding_clients", 0) }

\* Joi.string().email(): the address syntax check, by its table on the
\* strings the bodies carry.
WellFormedEmails == {"a@x.com", "b@x.com", "c@x.com"}

EmailSyntaxOK(e) == e \in WellFormedEmails

\* Variant: the lower bound of interestLevel is 0.
waitlistSchema_MinZero(b) ==
    /\ "email" \in b.has /\ b.email # "" /\ EmailSyntaxOK(b.email)
    /\ "primarySkill" \in b.has /\ b.primarySkill # ""
    /\ "biggestChallenge" \in b.has /\ b.biggestChallenge # ""
    /\ "interestLevel" \in b.has
    /\ b.interestLevel >= 0 /\ b.interestLevel <= 50

\* waitlistSchema.validate(req.body): TRUE iff there is no error.
\* Joi.string() rejects the empty string; Joi.number().min(1).max(5) has no
\* .integer().
waitlistSchema(b) ==
    /\ "email" \in b.has /\ b.email # "" /\ EmailSyntaxOK(b.email)
    /\ "primarySkill" \in b.has /\ b.primarySkill # ""
    /\ "biggestChallenge" \in b.has /\ b.biggestChallenge # ""
    /\ "interestLevel" \in b.has
    /\ b.interestLevel >= 10 /\ b.interestLevel <= 50

\* Number.prototype.toString of a number kept in tenths, for 0 <= n < 10.
Digit == <<"0", "1", "2", "3", "4", "5", "6", "7", "8", "9">>

\* Variant: the fraction is dropped, as parseInt would.
NumToString_Integer(t) == Digit[(t \div 10) + 1]

NumToString(t) ==
    IF t % 10 = 0 THEN Digit[(t \div 10) + 1]
    ELSE Digit[(t \div 10) + 1] \o "." \o Digit[(t % 10) + 1]

\* Variant: the floor at zero is missing.
SpotsLeft_NoFloor(n) == TotalSpots - n

\* Math.max(500 - totalSignups, 0)
SpotsLeft(n) == IF TotalSpots - n > 0 THEN TotalSpots - n ELSE 0

\* ------------------------------------------------------------------- state
VARIABLES
    seeded,       \* the number of signups stored before the behaviour starts
    users,        \* table users, the rows added since: records [id, email]
    responses,    \* table responses, the rows added since: records
                  \* [userId, questionId, answer]
    nextId,       \* the next fresh primary key
    createdAt,    \* column createdAt of the users added, by id, in
                  \* half-days
    req,          \* the POST /api/waitlist handlers, by request
    isConfigured, \* EmailService.isConfigured
    isDevelopment,\* EmailService.isDevelopment
    wssClients,   \* wss.clients
    readyState,   \* readyState of every connection
    inbox,        \* the messages each connection was sent
    broadcasts,   \* history: the broadcastUpdate calls, in order
    statsAnswer,  \* the GET /api/stats answer on its way to the caller
    hist,         \* history: what the properties remember of each request
    lastDone,     \* history: the request answered last, 0 once another arrives
    upd,          \* the POST /api/send-update handler and the
                  \* sendProgressUpdate call it makes
    rep,          \* the GET /api/analytics/comprehensive handler
    now,          \* the clock, in half-days (12 h) since the start of UTC
                  \* day 0
    ana,          \* the GET /api/analytics handler
    dash,         \* the GET /dashboard handler
    page          \* the ZintleWaitlist object of one open landing page and
                  \* what the page displays

store == <<seeded, users, responses, nextId, createdAt>>
mailer == <<isConfigured, isDevelopment>>
sockets == <<wssClients, readyState, inbox, broadcasts>>
views == <<ana, dash, page>>
admin == <<upd, rep, now, views>>

vars == <<seeded, users, responses, nextId, req, isConfigured, isDevelopment,
          wssClients, readyState, inbox, broadcasts, statsAnswer, hist,
          lastDone, upd, createdAt, rep, now, ana, dash, page>>

\* ------------------------------------------------------------ seeded store
\* The signups stored before the behaviour starts: signup i is the user row
\* [id |-> i, email |-> SeedEmail(i)] with its three responses.  Each table
\* is these rows together with the rows added since; the store's queries
\* below answer for the whole table.
SeedEmail(i) == "seed" \o ToString(i) \o "@x.com"

SeedEmails ==
    [n \in SeedSizes \cup UpdateSeeds |-> {SeedEmail(i) : i \in 1..n}]

\* The handler's locals before the request arrives.
IdleReq ==
    [pc |-> "idle", body |-> NoBody, status |-> 0, userId |-> 0,
     totalSignups |-> 0, sends |-> <<>>, emailSent |-> FALSE, position |-> 0]

\* What the properties remember of a request: the user count when it
\* arrived (before) and right after its insert (afterInsert); whether
\* findUnique returned null (foundNull); whether
\* the store failed one of its queries (fault); the primary key its
\* transaction inserted the user under (txId); whether no other request was
\* in flight while it ran (alone); the request answered last before it
\* arrived (pred); the connection at which client.send threw during its
\* broadcasts, 0 when none did (threw).
IdleHist ==
    [before |-> 0, afterInsert |-> 0, foundNull |-> FALSE,
     fault |-> FALSE, txId |-> 0, alone |-> FALSE, pred |-> 0, threw |-> 0]

NoStats == [status |-> 0, totalSignups |-> 0, spotsLeft |-> 0]

\* The handler's locals before POST /api/send-update arrives: the body's
\* subject and content, the recipients, the loop index i, the transport
\* calls made and the results collected by sendProgressUpdate, and the
\* response (its status and the keys and values of its JSON body).
Missing == "<missing>"

\* An object with the counts of a progress update: the keys it has, and the
\* values of sent and total (0 under a key it does not have).
NoResult == [has |-> {}, sent |-> 0, total |-> 0]

IdleUpd ==
    [pc |-> "idle", subject |-> Missing, content |-> Missing,
     emails |-> <<>>, i |-> 0, calls |-> <<>>, results |-> <<>>,
     result |-> NoResult, status |-> 0, json |-> NoResult, message |-> ""]

\* The handler's locals before GET /api/analytics/comprehensive arrives:
\* the clock reading today, the results of its queries, the response, and
\* (history) whether the store failed one of the queries and the ids of
\* the users stored when usersLastMonth was read.
NoReport ==
    [status |-> 0, totalUsers |-> 0, usersThisWeek |-> 0,
     usersThisMonth |-> 0, dailySignups |-> <<>>,
     weeklyGrowthRate |-> "", averageInterest |-> [num |-> 0, den |-> 1],
     startedRate |-> "", completedRate |-> "", retentionPotential |-> "",
     completionRate |-> ""]

IdleRep ==
    [pc |-> "idle", today |-> 0, totalUsers |-> 0, usersToday |-> 0,
     usersThisWeek |-> 0, usersThisMonth |-> 0, usersLastMonth |-> <<>>,
     skillDistribution |-> <<>>, challengeDistribution |-> <<>>,
     interestLevels |-> <<>>, signupsByHour |-> <<>>,
     step2Completions |-> 0, step3Completions |-> 0, answer |-> NoReport,
     dailySignupsArray |-> <<>>, faulted |-> FALSE, seen |-> {}]

\* The handler's locals before GET /api/analytics arrives: the results of
\* its queries and the status of its answer.
IdleAna ==
    [pc |-> "idle", skillDistribution |-> <<>>,
     challengeDistribution |-> <<>>, interestLevels |-> <<>>,
     totalUsers |-> 0, recentSignups |-> 0, status |-> 0]

\* The handler's locals before GET /dashboard arrives: the report it
\* fetched, the users it read and the status of its answer.
IdleDash ==
    [pc |-> "idle", data |-> NoReport, users |-> <<>>, status |-> 0]

\* The landing page before DOMContentLoaded: no ZintleWaitlist object yet.
\* check and load are the fetches of checkBackendAvailability and
\* loadDynamicData; data is the answer loadDynamicData read; counter is the
\* end value of the counter animation and spots the textContent of
\* #spots-left.
NoPage ==
    [pc |-> "unloaded", isBackendAvailable |-> FALSE, websocket |-> "null",
     check |-> "none", load |-> "none", data |-> NoStats,
     counter |-> 0, spots |-> ""]

\* The handlers, the mailer and the socket server after construction.
Idle ==
    /\ req = [r \in Reqs |-> IdleReq]
    /\ isConfigured \in BOOLEAN
    /\ isDevelopment \in BOOLEAN
    /\ ~isConfigured => ~isDevelopment    \* read in configured mode only
    /\ wssClients = {}
    /\ readyState = [c \in Clients |-> "NONE"]
    /\ inbox = [c \in Clients |-> <<>>]
    /\ broadcasts = <<>>
    /\ statsAnswer = NoStats
    /\ hist = [r \in Reqs |-> IdleHist]
    /\ lastDone = 0
    /\ upd = IdleUpd
    /\ rep = IdleRep
    /\ ana = IdleAna
    /\ dash = IdleDash
    /\ page = NoPage

\* The state after construction, but for the signups already stored.
Start ==
    /\ users = {}
    /\ responses = {}
    /\ nextId = seeded + 1
    /\ createdAt = <<>>
    /\ now = 0
    /\ Idle

Init == seeded \in SeedSizes /\ Start

\* ------------------------------------------------------------ the store
\* The number of rows of table users.
TableSize == seeded + Cardinality(users)

\* Variant: the count is taken zero-based.
UserCount_ZeroBased == TableSize - 1

\* prisma.user.count()
UserCount == TableSize

\* Variant: once the cap is reached every email counts as taken.
FindUniqueHit_AtCap(email) == TableSize >= TotalSpots

\* Variant: the lookup never finds a row.
FindUniqueHit_Never(email) == FALSE

\* prisma.user.findUnique({ where: { email } }): TRUE iff a row is returned.
FindUniqueHit(email) ==
    \/ email \in SeedEmails[seeded]
    \/ \E u \in users : u.email = email

\* Variant: the table has no unique index on email.
UniqueEmailOK_NoIndex(us, email) == TRUE

\* The unique index users_email_key on users(email): TRUE iff a row with
\* this email may be inserted next to the seeded rows and the rows us.
UniqueEmailOK(us, email) ==
    /\ email \notin SeedEmails[seeded]
    /\ \A u \in us : u.email # email

\* The three tx.response.create calls of the transaction, in order.
ResponseRows(uid, b) ==
    << [userId |-> uid, questionId |-> "primary_skill",
        answer |-> b.primarySkill],
       [userId |-> uid, questionId |-> "biggest_challenge",
        answer |-> b.biggestChallenge],
       [userId |-> uid, questionId |-> "interest_level",
        answer |-> NumToString(b.interestLevel)] >>

\* prisma.$transaction(async tx => ...): the callback's writes against the
\* added rows us, rs of the two tables.  failAt = 0: the store fails nothing; failAt = k: the
\* k-th response insert is rejected (Promise.all issues all three, so the
\* other two are written inside the transaction).  The result holds the
\* tables as the callback left them; what the store keeps is decided by
\* TxOutcome.
TxRun(us, rs, uid, b, failAt) ==
    IF ~UniqueEmailOK(us, b.email)
    THEN [ok |-> FALSE, unique |-> TRUE, users |-> us, responses |-> rs]
    ELSE LET rows == ResponseRows(uid, b)
             kept == (1..3) \ {failAt}
         IN [ok |-> failAt = 0, unique |-> FALSE,
             users |-> us \cup {[id |-> uid, email |-> b.email]},
             responses |-> rs \cup {rows[k] : k \in kept}]

\* Variant: the writes are not grouped, so nothing is rolled back.
TxOutcome_NoRollback(us, rs, run) ==
    [users |-> run.users, responses |-> run.responses]

\* Commit or rollback: a callback that threw leaves both tables as they were.
TxOutcome(us, rs, run) ==
    IF run.ok THEN [users |-> run.users, responses |-> run.responses]
    ELSE [users |-> us, responses |-> rs]

\* ------------------------------------------------------- POST /api/waitlist
InFlight(r) == req[r].pc \notin {"idle", "done"}

NoneInFlight == \A r \in Reqs : ~InFlight(r)

\* res.status(code).json(...): the handler ends.
Answer(r, code) ==
    [req[r] EXCEPT !.pc = "done", !.status = code]

\* The request arrives and is validated (lines 86-96).  Requests are numbered
\* in arrival order.
Receive(r, b) ==
    /\ req[r].pc = "idle"
    /\ IF r = 1 THEN TRUE ELSE req[r - 1].pc # "idle"
    /\ LET arrived == [req[r] EXCEPT !.body = b]
       IN req' = [req EXCEPT ![r] =
                    IF waitlistSchema(b)
                    THEN [arrived EXCEPT !.pc = "find"]
                    ELSE [arrived EXCEPT !.pc = "done", !.status = 400]]
    /\ hist' = [q \in Reqs |->
                 IF q = r
                 THEN [hist[r] EXCEPT !.before = TableSize,
                                      !.alone = NoneInFlight,
                                      !.pred = lastDone]
                 ELSE IF InFlight(q) THEN [hist[q] EXCEPT !.alone = FALSE]
                 ELSE hist[q]]
    /\ lastDone' = IF waitlistSchema(b) THEN 0 ELSE r
    /\ statsAnswer' = NoStats
    /\ UNCHANGED <<store, mailer, admin, sockets>>

\* Variant: the 409 branch merges the submitted answers into the existing
\* user's responses.
RejectExisting_Merge(r) ==
    /\ req' = [req EXCEPT ![r] = Answer(r, 409)]
    /\ lastDone' = r
    /\ LET old == CHOOSE u \in users : u.email = req[r].body.email
           rows == ResponseRows(old.id, req[r].body)
       IN responses' = responses \cup {rows[k] : k \in 1..3}
    /\ UNCHANGED <<seeded, users, nextId, createdAt, hist>>

\* Variant: the 409 branch replaces the existing user's answers by the
\* submitted ones.
RejectExisting_Upsert(r) ==
    /\ req' = [req EXCEPT ![r] = Answer(r, 409)]
    /\ lastDone' = r
    /\ LET old == CHOOSE u \in users : u.email = req[r].body.email
           rows == ResponseRows(old.id, req[r].body)
       IN responses' = {x \in responses : x.userId # old.id}
                          \cup {rows[k] : k \in 1..3}
    /\ UNCHANGED <<seeded, users, nextId, createdAt, hist>>

\* The 409 branch (lines 103-107).
RejectExisting(r) ==
    /\ req' = [req EXCEPT ![r] = Answer(r, 409)]
    /\ lastDone' = r
    /\ UNCHANGED <<store, hist>>

\* The catch block (lines 175-180): 500.  fault tells whether the store
\* failed a query (TRUE) or rejected a duplicate email (FALSE).
InternalError(r, fault) ==
    /\ req' = [req EXCEPT ![r] = Answer(r, 500)]
    /\ hist' = [hist EXCEPT ![r].fault = fault,
                            ![r].txId = IF req[r].pc = "tx" THEN nextId
                                        ELSE @]
    /\ lastDone' = r

\* await prisma.user.findUnique (lines 99-107).
FindUnique(r) ==
    /\ req[r].pc = "find"
    /\ \/ /\ UNCHANGED store
          /\ InternalError(r, TRUE)
       \/ /\ FindUniqueHit(req[r].body.email)
          /\ RejectExisting(r)
       \/ /\ ~FindUniqueHit(req[r].body.email)
          /\ req' = [req EXCEPT ![r].pc = "tx"]
          /\ hist' = [hist EXCEPT ![r].foundNull = TRUE]
          /\ UNCHANGED <<store, lastDone>>
    /\ statsAnswer' = NoStats
    /\ UNCHANGED <<mailer, admin, sockets>>

\* await prisma.$transaction (lines 110-143).
Transaction(r) ==
    /\ req[r].pc = "tx"
    /\ \E failAt \in 0..3 :
         LET run == TxRun(users, responses, nextId, req[r].body, failAt)
             out == TxOutcome(users, responses, run)
         IN /\ users' = out.users
            /\ responses' = out.responses
            /\ createdAt' = [id \in {u.id : u \in out.users} |->
                               IF id \in DOMAIN createdAt
                               THEN createdAt[id] ELSE now]
            /\ UNCHANGED seeded
            /\ nextId' = nextId + 1
            /\ IF run.ok
               THEN /\ req' = [req EXCEPT ![r].pc = "count",
                                          ![r].userId = nextId]
                    /\ hist' = [hist EXCEPT
                                  ![r].afterInsert = TableSize',
                                  ![r].txId = nextId]
                    /\ UNCHANGED lastDone
               ELSE InternalError(r, ~run.unique)
    /\ statsAnswer' = NoStats
    /\ UNCHANGED <<mailer, admin, sockets>>

\* await prisma.user.count() (line 146).
Count(r) ==
    /\ req[r].pc = "count"
    /\ UNCHANGED store
    /\ \/ InternalError(r, TRUE)
       \/ /\ req' = [req EXCEPT ![r].pc = "mail",
                                 ![r].totalSignups = UserCount]
          /\ UNCHANGED <<hist, lastDone>>
    /\ statsAnswer' = NoStats
    /\ UNCHANGED <<mailer, admin, sockets>>

\* ------------------------------------------------- EmailService (welcome)
\* What one resend.emails.send call can do: deliver, report that the sending
\* domain is not verified, report another error, or throw.
SendOutcomes == {"ok", "domain", "other", "throw"}

FallbackFrom == "onboarding@resend.dev"
ConfiguredFrom == "Zintle Team <FROM_EMAIL>"

\* Variant: the demo-mode short-circuit is missing.
DemoMode_Never == FALSE

\* if (!this.isConfigured): demo mode (emailService.js line 21).
DemoMode == ~isConfigured

\* Variant: every reported error is retried.
ShouldRetry_AnyError(out) == out \in {"domain", "other"}

\* error.message?.includes('domain is not verified') (emailService.js
\* line 54), on the outcome of the first send.
ShouldRetry(out) == out = "domain"

\* emailData.from (emailService.js lines 33-35)
WelcomeFrom == IF isDevelopment THEN FallbackFrom ELSE ConfiguredFrom

\* Variant: a failed welcome email fails the request.
MailDone_Strict(r, calls, success) ==
    req' = [req EXCEPT ![r].pc = IF success THEN "respond" ELSE "done",
                       ![r].status = IF success THEN 0 ELSE 500,
                       ![r].sends = calls,
                       ![r].emailSent = success]

\* The handler resumes with emailResult (lines 149-160).
MailDone(r, calls, success) ==
    req' = [req EXCEPT ![r].pc = "respond", ![r].sends = calls,
                       ![r].emailSent = success]

\* sendWelcomeEmail up to its first transport call (emailService.js lines 19-48, 72-80).
SendWelcome(r) ==
    /\ req[r].pc = "mail"
    /\ IF DemoMode
       THEN MailDone(r, <<>>, TRUE)
       ELSE \E out \in SendOutcomes :
              LET calls == <<[from |-> WelcomeFrom, out |-> out]>>
              IN CASE out = "ok" -> MailDone(r, calls, TRUE)
                   [] out \in {"domain", "other"} /\ ShouldRetry(out) ->
                        req' = [req EXCEPT ![r].pc = "retry",
                                           ![r].sends = calls]
                   [] OTHER -> MailDone(r, calls, FALSE)
    /\ statsAnswer' = NoStats
    /\ UNCHANGED <<store, mailer, admin, sockets, hist, lastDone>>

\* The retry with Resend's verified sender (emailService.js lines 54-70, 77-80).
RetryWelcome(r) ==
    /\ req[r].pc = "retry"
    /\ \E out \in SendOutcomes :
         MailDone(r, Append(req[r].sends,
                            [from |-> FallbackFrom, out |-> out]),
                  out = "ok")
    /\ statsAnswer' = NoStats
    /\ UNCHANGED <<store, mailer, admin, sockets, hist, lastDone>>

\* ----------------------------------------------------- Realtime broadcast
\* Variant: the readyState guard is missing.
Recipients_All(clients, state) == clients

\* wss.clients.forEach with the readyState guard (lines 62-66): the
\* connections client.send is called on.
Recipients(clients, state) == {c \in clients : state[c] = "OPEN"}

\* JSON.stringify({ type, ...data })
Message(type, value) == [type |-> type, value |-> value]

\* broadcastUpdate(type, data) on the inboxes `boxes`.
broadcastUpdate(boxes, type, value) ==
    [c \in Clients |->
        IF c \in Recipients(wssClients, readyState)
        THEN Append(boxes[c], Message(type, value))
        ELSE boxes[c]]

\* History of one broadcastUpdate call by request r: the message and the
\* connections that were OPEN at the call.
Logged(log, type, value, r) ==
    Append(log, [msg |-> Message(type, value), by |-> r,
                 open |-> {c \in Clients : readyState[c] = "OPEN"}])

\* Variant: the two calls are made in the other order.
Updates_Swapped(totalSignups) ==
    << [type |-> "spots_update", value |-> SpotsLeft(totalSignups)],
       [type |-> "counter_update", value |-> totalSignups] >>

\* Lines 163-165: the two broadcastUpdate calls, in order.
Updates(totalSignups) ==
    << [type |-> "counter_update", value |-> totalSignups],
       [type |-> "spots_update", value |-> SpotsLeft(totalSignups)] >>

\* Lines 162-173: the two broadcasts and the 201 answer.
Respond(r) ==
    /\ req[r].pc = "respond"
    /\ LET calls == Updates(req[r].totalSignups)
       IN /\ inbox' = broadcastUpdate(
                          broadcastUpdate(inbox, calls[1].type,
                                          calls[1].value),
                          calls[2].type, calls[2].value)
          /\ broadcasts' = Logged(Logged(broadcasts, calls[1].type,
                                         calls[1].value, r),
                                  calls[2].type, calls[2].value, r)
          /\ req' = [req EXCEPT ![r].pc = "done", ![r].status = 201,
                                ![r].position = req[r].totalSignups]
    /\ lastDone' = r
    /\ statsAnswer' = NoStats
    /\ UNCHANGED <<store, mailer, admin, wssClients, readyState, hist>>

\* A WebSocket handshake completes: the server adds the connection to
\* wss.clients.  Connections are numbered in order.
WsOpen(c) ==
    /\ readyState[c] = "NONE"
    /\ IF c = 1 THEN TRUE ELSE readyState[c - 1] # "NONE"
    /\ readyState' = [readyState EXCEPT ![c] = "OPEN"]
    /\ wssClients' = wssClients \cup {c}
    /\ statsAnswer' = NoStats
    /\ UNCHANGED <<store, mailer, admin, req, inbox, broadcasts, hist, lastDone>>

\* The closing handshake starts.
WsClosing(c) ==
    /\ readyState[c] = "OPEN"
    /\ readyState' = [readyState EXCEPT ![c] = "CLOSING"]
    /\ statsAnswer' = NoStats
    /\ UNCHANGED <<store, mailer, admin, req, wssClients, inbox, broadcasts, hist,
                   lastDone>>

\* The connection is closed and leaves wss.clients.
WsClosed(c) ==
    /\ readyState[c] \in {"OPEN", "CLOSING"}
    /\ readyState' = [readyState EXCEPT ![c] = "CLOSED"]
    /\ wssClients' = wssClients \ {c}
    /\ statsAnswer' = NoStats
    /\ UNCHANGED <<store, mailer, admin, req, inbox, broadcasts, hist, lastDone>>

\* ---------------------------------------------------------- GET /api/stats
\* Lines 70-83: the count, or 500 when the store fails.
GetStats ==
    /\ \/ statsAnswer' = [NoStats EXCEPT !.status = 500]
       \/ LET totalSignups == UserCount
          IN statsAnswer' = [status |-> 200, totalSignups |-> totalSignups,
                             spotsLeft |-> SpotsLeft(totalSignups)]
    /\ UNCHANGED <<store, mailer, admin, sockets, req, hist, lastDone>>

\* ------------------------------------------------------------ specification
\* The signup pipeline and the stats counter, with no WebSocket client
\* connected.
Next ==
    \/ \E r \in Reqs, b \in Bodies : Receive(r, b)
    \/ \E r \in Reqs : FindUnique(r)
    \/ \E r \in Reqs : Transaction(r)
    \/ \E r \in Reqs : Count(r)
    \/ \E r \in Reqs : SendWelcome(r)
    \/ \E r \in Reqs : RetryWelcome(r)
    \/ \E r \in Reqs : Respond(r)
    \/ GetStats

Spec == Init /\ [][Next]_vars

\* The signup pipeline in demo mode with WebSocket clients coming and going;
\* the submissions are the valid ones.
ValidBodies == {b \in Bodies : waitlistSchema(b)}

InitSockets == Init /\ ~isConfigured /\ ~isDevelopment

NextSockets ==
    \/ \E r \in Reqs, b \in ValidBodies : Receive(r, b)
    \/ \E r \in Reqs : FindUnique(r)
    \/ \E r \in Reqs : Transaction(r)
    \/ \E r \in Reqs : Count(r)
    \/ \E r \in Reqs : SendWelcome(r)
    \/ \E r \in Reqs : Respond(r)
    \/ \E c \in Clients : WsOpen(c)
    \/ \E c \in Clients : WsClosing(c)
    \/ \E c \in Clients : WsClosed(c)

SpecSockets == InitSockets /\ [][NextSockets]_vars

\* ------------------------------------------- a broadcast whose send throws
\* broadcastUpdate (lines 61-67) when client.send throws at connection
\* `at`: forEach visits wss.clients in insertion order and nothing catches
\* the exception, so only the connections before `at` have been sent the
\* message.
SendUntilThrow(boxes, type, value, at) ==
    [c \in Clients |->
        IF c \in Recipients(wssClients, readyState) /\ c < at
        THEN Append(boxes[c], Message(type, value))
        ELSE boxes[c]]

\* Lines 162-165 and 175-180: client.send throws at connection `at` during
\* the k-th broadcastUpdate call.  The exception leaves broadcastUpdate and
\* the try block; the catch block answers 500.
RespondSendThrows(r) ==
    /\ req[r].pc = "respond"
    /\ \E k \in 1..2, at \in Recipients(wssClients, readyState) :
         LET calls == Updates(req[r].totalSignups)
             first == IF k = 1
                      THEN SendUntilThrow(inbox, calls[1].type,
                                          calls[1].value, at)
                      ELSE broadcastUpdate(inbox, calls[1].type,
                                           calls[1].value)
             log1 == Logged(broadcasts, calls[1].type, calls[1].value, r)
         IN /\ inbox' = IF k = 1 THEN first
                        ELSE SendUntilThrow(first, calls[2].type,
                                            calls[2].value, at)
            /\ broadcasts' = IF k = 1 THEN log1
                             ELSE Logged(log1, calls[2].type,
                                         calls[2].value, r)
            /\ hist' = [hist EXCEPT ![r].threw = at]
    /\ req' = [req EXCEPT ![r] = Answer(r, 500)]
    /\ lastDone' = r
    /\ statsAnswer' = NoStats
    /\ UNCHANGED <<store, mailer, admin, wssClients, readyState>>

NextSendFailure ==
    \/ \E r \in Reqs, b \in ValidBodies : Receive(r, b)
    \/ \E r \in Reqs : FindUnique(r)
    \/ \E r \in Reqs : Transaction(r)
    \/ \E r \in Reqs : Count(r)
    \/ \E r \in Reqs : SendWelcome(r)
    \/ \E r \in Reqs : Respond(r)
    \/ \E r \in Reqs : RespondSendThrows(r)
    \/ \E c \in Clients : WsOpen(c)
    \/ \E c \in Clients : WsClosing(c)
    \/ \E c \in Clients : WsClosed(c)

SpecSendFailure == InitSockets /\ [][NextSendFailure]_vars

\* --------------------------------------------------- POST /api/send-update
\* The values a body can carry under subject and under content.
UpdFields == {Missing, "", "News"}

\* !v for a field of the body
Falsy(v) == v \in {Missing, ""}

\* prisma.user.findMany({ select: { email: true } }) and users.map(user =>
\* user.email): the emails of all rows, seeded rows first, in id order.
FindManyEmails ==
    LET nth(k) == CHOOSE u \in users :
                     Cardinality({v \in users : v.id < u.id}) = k - 1
    IN [k \in 1..TableSize |->
          IF k <= seeded THEN SeedEmail(k) ELSE nth(k - seeded).email]

\* Variant: the end index is taken inclusive.
Slice_Inclusive(s, from, to) ==
    SubSeq(s, from + 1, IF to + 1 < Len(s) THEN to + 1 ELSE Len(s))

\* Array.prototype.slice(from, to) for 0 <= from <= to: the elements at the
\* 0-based positions from .. to - 1 that exist.
Slice(s, from, to) ==
    SubSeq(s, from + 1, IF to < Len(s) THEN to ELSE Len(s))

\* What one resend.emails.send call for a batch can do: deliver, report an
\* error, or throw.
BatchOutcomes == {"ok", "error", "throw"}

\* Variant: every recipient of a batch is recorded as delivered.
BatchResults_AllDelivered(batch, out) ==
    [k \in 1..Len(batch) |-> [email |-> batch[k], success |-> TRUE]]

\* results.push(...batch.map(email => ({ email, success }))): the entries a
\* batch adds (emailService.js lines 552-562).
BatchResults(batch, out) ==
    [k \in 1..Len(batch) |-> [email |-> batch[k], success |-> out = "ok"]]

\* The return value of the configured sendProgressUpdate (lines 570-571).
Tally(emails, results) ==
    [has |-> {"success", "sent", "total", "results"},
     sent |-> Len(SelectSeq(results, LAMBDA x : x.success)),
     total |-> Len(emails)]

\* The return value in demo mode (lines 532-535): no total.
DemoTally(emails) ==
    [has |-> {"success", "sent"}, sent |-> Len(emails), total |-> 0]

\* A template literal's text for a count, or for a key the object lacks.
Show(obj, key) ==
    IF key \in obj.has THEN ToString(obj[key]) ELSE "undefined"

\* The request arrives (part_000 lines 186-190).
UpdReceive(subject, content) ==
    /\ upd.pc = "idle"
    /\ LET arrived == [upd EXCEPT !.subject = subject, !.content = content]
       IN upd' = IF Falsy(subject) \/ Falsy(content)
                 THEN [arrived EXCEPT !.pc = "done", !.status = 400]
                 ELSE [arrived EXCEPT !.pc = "findMany"]
    /\ statsAnswer' = NoStats
    /\ UNCHANGED <<store, mailer, sockets, req, hist, lastDone, rep, now, views>>

\* await prisma.user.findMany, then sendProgressUpdate up to its first
\* await (part_000 lines 192-197, 206-209; emailService.js lines 531-541).
UpdFindMany ==
    /\ upd.pc = "findMany"
    /\ \/ upd' = [upd EXCEPT !.pc = "done", !.status = 500]
       \/ LET emails == FindManyEmails
              called == [upd EXCEPT !.emails = emails]
          IN upd' = IF ~isConfigured
                    THEN [called EXCEPT !.pc = "respond",
                                        !.result = DemoTally(emails)]
                    ELSE IF 0 < Len(emails)
                    THEN [called EXCEPT !.pc = "send", !.i = 0]
                    ELSE [called EXCEPT !.pc = "respond",
                                        !.result = Tally(emails, <<>>)]
    /\ statsAnswer' = NoStats
    /\ UNCHANGED <<store, mailer, sockets, req, hist, lastDone, rep, now, views>>

\* One turn of the loop: await this.resend.emails.send for the batch at i
\* (emailService.js lines 541-571).
UpdSendBatch ==
    /\ upd.pc = "send"
    /\ \E out \in BatchOutcomes :
         LET batch == Slice(upd.emails, upd.i, upd.i + batchSize)
             results == upd.results \o BatchResults(batch, out)
             sent == [upd EXCEPT
                        !.calls = Append(@, [to |-> batch, out |-> out]),
                        !.results = results]
         IN upd' = IF upd.i + batchSize < Len(upd.emails)
                   THEN [sent EXCEPT !.pc = "delay"]
                   ELSE [sent EXCEPT !.pc = "respond",
                                     !.result = Tally(upd.emails, results)]
    /\ statsAnswer' = NoStats
    /\ UNCHANGED <<store, mailer, sockets, req, hist, lastDone, rep, now, views>>

\* The one-second delay between batches has passed (lines 565-567, 540).
UpdDelay ==
    /\ upd.pc = "delay"
    /\ upd' = [upd EXCEPT !.pc = "send", !.i = @ + batchSize]
    /\ statsAnswer' = NoStats
    /\ UNCHANGED <<store, mailer, sockets, req, hist, lastDone, rep, now, views>>

\* res.json({ success, sent, total, message }) (part_000 lines 199-204):
\* JSON leaves out a key whose value is undefined.
UpdRespond ==
    /\ upd.pc = "respond"
    /\ upd' = [upd EXCEPT
                 !.pc = "done", !.status = 200,
                 !.json = [has |-> {"success", "message"}
                                    \cup (upd.result.has \cap {"sent", "total"}),
                           sent |-> upd.result.sent,
                           total |-> upd.result.total],
                 !.message = "Progress update sent to "
                                \o Show(upd.result, "sent") \o "/"
                                \o Show(upd.result, "total") \o " users"]
    /\ statsAnswer' = NoStats
    /\ UNCHANGED <<store, mailer, sockets, req, hist, lastDone, rep, now, views>>

InitUpdates == seeded \in UpdateSeeds /\ Start

NextUpdates ==
    \/ \E subject, content \in UpdFields : UpdReceive(subject, content)
    \/ UpdFindMany
    \/ UpdSendBatch
    \/ UpdDelay
    \/ UpdRespond

SpecUpdates == InitUpdates /\ [][NextUpdates]_vars

\* ------------------------------------- GET /api/analytics/comprehensive
\* Time is counted in half-days: a day is 2, a week 14, 30 days 60.  The
\* seeded rows were created at time 0 with the answers of SeedBody.
SeedBody == Body(Fields, "seed@x.com", "design", "finding_clients", 30)

\* The answer a body gives to question q.
AnswerOf(b, q) ==
    (CHOOSE x \in {ResponseRows(0, b)[k] : k \in 1..3} :
        x.questionId = q).answer

\* prisma.user.count({ where: { createdAt: { gte: t } } })
CountSince(t) ==
    (IF t <= 0 THEN seeded ELSE 0)
      + Cardinality({u \in users : createdAt[u.id] >= t})

\* prisma.user.findMany({ where: { createdAt: { gte: t } }, select:
\* { createdAt: true }, orderBy: { createdAt: 'asc' } }): the createdAt
\* values, in ascending order.
RECURSIVE Ascending(_)
Ascending(ids) ==
    IF ids = {} THEN <<>>
    ELSE LET first == CHOOSE i \in ids :
                         \A j \in ids : createdAt[i] < createdAt[j]
                                          \/ (createdAt[i] = createdAt[j]
                                                /\ i <= j)
         IN <<createdAt[first]>> \o Ascending(ids \ {first})

CreatedSince(t) ==
    (IF t <= 0 THEN [k \in 1..seeded |-> 0] ELSE <<>>)
      \o Ascending({u.id : u \in {v \in users : createdAt[v.id] >= t}})

\* prisma.response.groupBy({ by: ['answer'], where: { questionId: q },
\* _count: { answer: true } }): the count of each answer that occurs.
GroupBy(q) ==
    LET rows == {x \in responses : x.questionId = q}
        seedAnswers == IF seeded > 0 THEN {AnswerOf(SeedBody, q)} ELSE {}
    IN [a \in {x.answer : x \in rows} \cup seedAnswers |->
          Cardinality({x \in rows : x.answer = a})
            + (IF a \in seedAnswers THEN seeded ELSE 0)]

\* prisma.response.count({ where: { questionId: q } })
ResponseCount(q) ==
    seeded + Cardinality({x \in responses : x.questionId = q})

\* parseInt(answer) of a stored interest_level answer: the digits before
\* the decimal point.
ParseInt(a) == (CHOOSE t \in 0..99 : NumToString(t) = a) \div 10

\* The digits of f as a decimal fraction of the given length.
RECURSIVE FracDigits(_, _)
FracDigits(f, digits) ==
    IF digits = 0 THEN ""
    ELSE FracDigits(f \div 10, digits - 1) \o Digit[(f % 10) + 1]

RECURSIVE Pow10(_)
Pow10(k) == IF k = 0 THEN 1 ELSE 10 * Pow10(k - 1)

\* (num / den).toFixed(digits) for num >= 0, den > 0, digits >= 1.
ToFixed(num, den, digits) ==
    LET scaled == (2 * num * Pow10(digits) + den) \div (2 * den)
    IN ToString(scaled \div Pow10(digits)) \o "."
         \o FracDigits(scaled % Pow10(digits), digits)

\* reduce((acc, level) => acc + weight * level._count.answer, 0) over the
\* groups of a groupBy result whose answers are given.
RECURSIVE WeightedSum(_, _, _)
WeightedSum(groups, answers, weight) ==
    IF answers = {} THEN 0
    ELSE LET a == CHOOSE x \in answers : TRUE
         IN weight[a] * groups[a]
              + WeightedSum(groups, answers \ {a}, weight)

\* Variant: the division is not guarded, so a zero denominator gives
\* Infinity (or NaN for 0 / 0).
WeeklyGrowthRate_Unguarded(totalUsers, usersThisWeek) ==
    IF totalUsers - usersThisWeek > 0
    THEN ToFixed(usersThisWeek * 100, totalUsers - usersThisWeek, 2) \o "%"
    ELSE IF usersThisWeek = 0 THEN "NaN%" ELSE "Infinity%"

\* weeklyGrowthRate of the response (part_000 lines 356-359, 388); the
\* sign of infinity is written oo.
WeeklyGrowthRate(totalUsers, usersThisWeek) ==
    LET lastWeekTotalUsers == totalUsers - usersThisWeek
        weeklyGrowthRate ==
            IF lastWeekTotalUsers > 0
            THEN ToFixed(usersThisWeek * 100, lastWeekTotalUsers, 2)
            ELSE "oo"
    IN IF weeklyGrowthRate = "oo" THEN "New" ELSE weeklyGrowthRate \o "%"

\* marketInsights.averageInterest (lines 363-365), as a fraction.
AverageInterest(totalUsers, interestLevels) ==
    IF totalUsers > 0
    THEN [num |-> WeightedSum(interestLevels, DOMAIN interestLevels,
                              [a \in DOMAIN interestLevels |-> ParseInt(a)]),
          den |-> totalUsers]
    ELSE [num |-> 0, den |-> 1]

\* The measured rates of the conversion funnel (lines 408-409).
FunnelRate(stepCompletions, step1Completions) ==
    IF step1Completions > 0
    THEN ToFixed(stepCompletions * 100, step1Completions, 1) \o "%"
    ELSE "0%"

\* Variant: only the answers above 4 count.
RetentionPotential_Above4(totalUsers, interestLevels) ==
    IF totalUsers > 0
    THEN ToFixed(
           100 * WeightedSum(interestLevels,
                             {a \in DOMAIN interestLevels : ParseInt(a) > 4},
                             [a \in DOMAIN interestLevels |-> 1]),
           totalUsers, 1)
    ELSE "0"

\* businessMetrics.retentionPotential (line 417)
RetentionPotential(totalUsers, interestLevels) ==
    IF totalUsers > 0
    THEN ToFixed(
           100 * WeightedSum(interestLevels,
                             {a \in DOMAIN interestLevels : ParseInt(a) >= 4},
                             [a \in DOMAIN interestLevels |-> 1]),
           totalUsers, 1)
    ELSE "0"

\* businessMetrics.completionRate (line 420)
CompletionRate(step3Completions, step1Completions) ==
    IF step1Completions > 0
    THEN ToFixed(step3Completions * 100, step1Completions, 1)
    ELSE "0"

\* One awaited query of the handler: it fails and the catch block answers
\* 500 (lines 426-429), or its result is bound and the handler goes on.
Awaited(from, to, field, value) ==
    /\ rep.pc = from
    /\ \/ rep' = [rep EXCEPT !.pc = "done", !.answer.status = 500,
                             !.faulted = TRUE]
       \/ rep' = [rep EXCEPT !.pc = to, ![field] = value]
    /\ statsAnswer' = NoStats
    /\ UNCHANGED <<store, mailer, sockets, req, hist, lastDone, upd, now, views>>

\* The request arrives: await prisma.user.count() (line 267).
RepTotalUsers == Awaited("idle", "today", "totalUsers", UserCount)

\* today = new Date() (line 268), then usersToday (274-276).
RepUsersToday ==
    /\ rep.pc = "today"
    /\ \/ rep' = [rep EXCEPT !.pc = "done", !.answer.status = 500,
                             !.faulted = TRUE]
       \/ rep' = [rep EXCEPT !.pc = "week", !.today = now,
                             !.usersToday = CountSince(now - 2)]
    /\ statsAnswer' = NoStats
    /\ UNCHANGED <<store, mailer, sockets, req, hist, lastDone, upd, now, views>>

\* usersThisWeek (lines 278-280)
RepUsersThisWeek ==
    Awaited("week", "month", "usersThisWeek", CountSince(rep.today - 14))

\* usersThisMonth (lines 282-284)
RepUsersThisMonth ==
    Awaited("month", "lastMonth", "usersThisMonth",
            CountSince(rep.today - 60))

\* date.toISOString().split('T')[0]: the UTC calendar date of a time, as
\* the number of the day.
UTCDate(t) == t \div 2

\* Variant: the loop runs from 30 down to 1.
DailyKeys_OneBack(today) ==
    [k \in 1..30 |-> UTCDate(today - (31 - k) * 2)]

\* The keys of dailyData in insertion order: the dates of today - i days
\* for i = 29 down to 0 (lines 300-305).
DailyKeys(today) ==
    [k \in 1..30 |-> UTCDate(today - (30 - k) * 2)]

\* dailyData after the forEach (lines 308-313): per key, the number of
\* users of usersLastMonth created on that date; users of other dates are
\* skipped.
DailyData(today, usersLastMonth) ==
    [d \in {DailyKeys(today)[k] : k \in 1..30} |->
       Len(SelectSeq(usersLastMonth, LAMBDA t : UTCDate(t) = d))]

\* dailySignupsArray (lines 316-321): the entries of dailyData in insertion
\* order, sorted by date.
DailySignupsArray(today, usersLastMonth) ==
    LET dailyData == DailyData(today, usersLastMonth)
        entries == [k \in 1..30 |->
                      [date |-> DailyKeys(today)[k],
                       signups |-> dailyData[DailyKeys(today)[k]]]]
    IN SortSeq(entries, LAMBDA a, b : a.date < b.date)

\* usersLastMonth (lines 287-297) and the daily histogram built from it
\* (lines 299-321).
RepUsersLastMonth ==
    /\ rep.pc = "lastMonth"
    /\ \/ rep' = [rep EXCEPT !.pc = "done", !.answer.status = 500,
                             !.faulted = TRUE]
       \/ LET usersLastMonth == CreatedSince(rep.today - 60)
          IN rep' = [rep EXCEPT
                       !.pc = "skills",
                       !.usersLastMonth = usersLastMonth,
                       !.dailySignupsArray =
                          DailySignupsArray(rep.today, usersLastMonth),
                       !.seen = {u.id : u \in users}]
    /\ statsAnswer' = NoStats
    /\ UNCHANGED <<store, mailer, sockets, req, hist, lastDone, upd, now, views>>

\* skillDistribution (lines 324-328)
RepSkills ==
    Awaited("skills", "challenges", "skillDistribution",
            GroupBy("primary_skill"))

\* challengeDistribution (lines 331-335)
RepChallenges ==
    Awaited("challenges", "interest", "challengeDistribution",
            GroupBy("biggest_challenge"))

\* interestLevels (lines 338-342)
RepInterest ==
    Awaited("interest", "hours", "interestLevels", GroupBy("interest_level"))

\* signupsByHour (lines 345-347)
RepHours ==
    Awaited("hours", "step2", "signupsByHour", CreatedSince(0 - 1000000))

\* step2Completions (lines 375-377)
RepStep2 ==
    Awaited("step2", "step3", "step2Completions",
            ResponseCount("primary_skill"))

\* step3Completions (lines 378-380) and res.json (lines 382-424).
RepStep3 ==
    /\ rep.pc = "step3"
    /\ \/ rep' = [rep EXCEPT !.pc = "done", !.answer.status = 500,
                             !.faulted = TRUE]
       \/ LET step1 == rep.totalUsers
              step3 == ResponseCount("interest_level")
          IN rep' = [rep EXCEPT
               !.pc = "done",
               !.step3Completions = step3,
               !.answer =
                  [status |-> 200,
                   totalUsers |-> rep.totalUsers,
                   usersThisWeek |-> rep.usersThisWeek,
                   usersThisMonth |-> rep.usersThisMonth,
                   dailySignups |-> rep.dailySignupsArray,
                   weeklyGrowthRate |->
                      WeeklyGrowthRate(rep.totalUsers, rep.usersThisWeek),
                   averageInterest |->
                      AverageInterest(rep.totalUsers, rep.interestLevels),
                   startedRate |-> FunnelRate(rep.step2Completions, step1),
                   completedRate |-> FunnelRate(step3, step1),
                   retentionPotential |->
                      RetentionPotential(rep.totalUsers, rep.interestLevels),
                   completionRate |-> CompletionRate(step3, step1)]]
    /\ statsAnswer' = NoStats
    /\ UNCHANGED <<store, mailer, sockets, req, hist, lastDone, upd, now, views>>

\* The stores a report is requested on: up to MaxStored complete signups,
\* created now, half a day, a week, more than a week or 30 days ago, in id
\* order.
Ages == {0, 1, 14, 15, 60}

StoredEmail == <<"c@x.com", "a@x.com", "b@x.com">>

StoredBodies ==
    {Body(Fields, "", "design", "finding_clients", 50),
     Body(Fields, "", "writing", "payment_delays", 40),
     Body(Fields, "", "design", "payment_delays", 10)}

InitReport ==
    /\ seeded = 0
    /\ now \in {0, 1}
    /\ \E k \in 0..MaxStored :
         \E age \in [1..k -> Ages], body \in [1..k -> StoredBodies] :
            /\ \A i, j \in 1..k : i < j => age[i] >= age[j]
            /\ users = {[id |-> i, email |-> StoredEmail[i]] : i \in 1..k}
            /\ responses =
                  UNION {{ResponseRows(i, body[i])[q] : q \in 1..3}
                           : i \in 1..k}
            /\ createdAt = [i \in 1..k |-> now - age[i]]
            /\ nextId = k + 1
    /\ Idle
    /\ ~isConfigured

NextReport ==
    \/ RepTotalUsers
    \/ RepUsersToday
    \/ RepUsersThisWeek
    \/ RepUsersThisMonth
    \/ RepUsersLastMonth
    \/ RepSkills
    \/ RepChallenges
    \/ RepInterest
    \/ RepHours
    \/ RepStep2
    \/ RepStep3
    \/ \E b \in ValidBodies : Receive(1, b)
    \/ FindUnique(1)
    \/ Transaction(1)
    \/ Count(1)
    \/ SendWelcome(1)
    \/ Respond(1)

SpecReport == InitReport /\ [][NextReport]_vars

\* -------------------------------------------------- GET /api/analytics
\* One awaited query of the handler (lines 215-245): it fails and the catch
\* block answers 500 (lines 257-259), or its result is bound.
AnaAwaited(from, to, field, value) ==
    /\ ana.pc = from
    /\ \/ ana' = [ana EXCEPT !.pc = "done", !.status = 500]
       \/ ana' = [ana EXCEPT !.pc = to, ![field] = value]
    /\ statsAnswer' = NoStats
    /\ UNCHANGED <<store, mailer, sockets, req, hist, lastDone, upd, rep,
                   now, dash, page>>

\* Lines 215-219
AnaSkills ==
    AnaAwaited("idle", "challenges", "skillDistribution",
               GroupBy("primary_skill"))

\* Lines 221-225
AnaChallenges ==
    AnaAwaited("challenges", "interest", "challengeDistribution",
               GroupBy("biggest_challenge"))

\* Lines 227-231
AnaInterest ==
    AnaAwaited("interest", "count", "interestLevels",
               GroupBy("interest_level"))

\* Line 233
AnaTotalUsers == AnaAwaited("count", "recent", "totalUsers", UserCount)

\* Lines 234-245: the users created in the last 7 days; the answer carries
\* their number (line 252).
AnaRecent ==
    AnaAwaited("recent", "respond", "recentSignups",
               Len(CreatedSince(now - 14)))

\* res.json (lines 247-254)
AnaRespond ==
    /\ ana.pc = "respond"
    /\ ana' = [ana EXCEPT !.pc = "done", !.status = 200]
    /\ statsAnswer' = NoStats
    /\ UNCHANGED <<store, mailer, sockets, req, hist, lastDone, upd, rep,
                   now, dash, page>>

\* ------------------------------------------------------- GET /dashboard
\* prisma.user.findMany({ include: { responses: true }, orderBy:
\* { createdAt: 'desc' }, take: 50 }) (lines 442-446): the ids of the users
\* added, newest first, at most 50 of them (the seeded users are older than
\* every user added).
RECURSIVE NewestFirst(_, _)
NewestFirst(ids, take) ==
    IF ids = {} \/ take = 0 THEN <<>>
    ELSE LET first == CHOOSE i \in ids :
                         \A j \in ids : createdAt[i] > createdAt[j]
                                          \/ (createdAt[i] = createdAt[j]
                                                /\ i >= j)
         IN <<first>> \o NewestFirst(ids \ {first}, take - 1)

\* The request arrives and the handler fetches
\* /api/analytics/comprehensive from its own server (line 439).
DashFetch ==
    /\ dash.pc = "idle"
    /\ rep.pc = "idle"
    /\ dash' = [dash EXCEPT !.pc = "fetch"]
    /\ statsAnswer' = NoStats
    /\ UNCHANGED <<store, mailer, sockets, req, hist, lastDone, upd, rep,
                   now, ana, page>>

\* The report is answered: await analytics.json() (line 440), then the
\* users are read (lines 442-446).
DashFindMany ==
    /\ dash.pc = "fetch"
    /\ rep.pc = "done"
    /\ \/ dash' = [dash EXCEPT !.pc = "done", !.status = 500,
                                !.data = rep.answer]
       \/ dash' = [dash EXCEPT
                      !.pc = "render", !.data = rep.answer,
                      !.users = NewestFirst({u.id : u \in users},
                                            dashboardTake)]
    /\ statsAnswer' = NoStats
    /\ UNCHANGED <<store, mailer, sockets, req, hist, lastDone, upd, rep,
                   now, ana, page>>

\* The page is rendered from the report and the users (lines 448-849); a
\* report without its sections makes the template throw and the catch
\* block (lines 850-863) answers the error page.
DashRender ==
    /\ dash.pc = "render"
    /\ dash' = [dash EXCEPT !.pc = "done",
                            !.status = IF dash.data.status = 200
                                       THEN 200 ELSE 500]
    /\ statsAnswer' = NoStats
    /\ UNCHANGED <<store, mailer, sockets, req, hist, lastDone, upd, rep,
                   now, ana, page>>

\* --------------------------------------------------------- every endpoint
\* All the endpoints of the server: one visitor signing up while one
\* administrator requests one of the admin endpoints.  The store holds the
\* signup of a@x.com, after none or one more than a batch of seeded ones,
\* and the mailer is configured.
InitEndpoints ==
    /\ seeded \in {0, batchSize + 1}
    /\ now = 0
    /\ \E b \in {v \in ValidBodies : v.email = "a@x.com"} :
          /\ users = {[id |-> seeded + 1, email |-> b.email]}
          /\ responses = {ResponseRows(seeded + 1, b)[q] : q \in 1..3}
    /\ createdAt = [i \in {seeded + 1} |-> 0]
    /\ nextId = seeded + 2
    /\ Idle
    /\ isConfigured /\ ~isDevelopment

\* No admin endpoint was requested yet.
Quiet ==
    /\ upd.pc = "idle"
    /\ rep.pc = "idle"
    /\ ana.pc = "idle"
    /\ dash.pc = "idle"

NextEndpoints ==
    \/ \E b \in ValidBodies : Receive(1, b)
    \/ FindUnique(1)
    \/ Transaction(1)
    \/ Count(1)
    \/ SendWelcome(1)
    \/ RetryWelcome(1)
    \/ Respond(1)
    \/ GetStats
    \/ Quiet /\ \E subject, content \in UpdFields :
                   UpdReceive(subject, content)
    \/ UpdFindMany
    \/ UpdSendBatch
    \/ UpdDelay
    \/ UpdRespond
    \/ (Quiet \/ dash.pc = "fetch") /\ RepTotalUsers
    \/ RepUsersToday
    \/ RepUsersThisWeek
    \/ RepUsersThisMonth
    \/ RepUsersLastMonth
    \/ RepSkills
    \/ RepChallenges
    \/ RepInterest
    \/ RepHours
    \/ RepStep2
    \/ RepStep3
    \/ Quiet /\ AnaSkills
    \/ AnaChallenges
    \/ AnaInterest
    \/ AnaTotalUsers
    \/ AnaRecent
    \/ AnaRespond
    \/ Quiet /\ DashFetch
    \/ DashFindMany
    \/ DashRender

SpecEndpoints == InitEndpoints /\ [][NextEndpoints]_vars

\* ------------------------------------------- the landing page (script.js)
\* String(n) of a non-negative integer: what textContent = n displays.
RECURSIVE DecString(_)
DecString(n) ==
    IF n < 10 THEN Digit[n + 1]
    ELSE DecString(n \div 10) \o Digit[(n % 10) + 1]

\* A JavaScript number that may be NaN.
Num(n) == [nan |-> FALSE, n |-> n]
NaN == [nan |-> TRUE, n |-> 0]

\* parseInt(data[field]) of the JSON answer of GET /api/stats: the 200
\* answer carries the numbers, the 500 answer carries only an error and
\* parseInt(undefined) is NaN.
ParseField(data, field) ==
    IF data.status = 200 THEN Num(data[field]) ELSE NaN

\* v || default: NaN and 0 are falsy.
OrElse(v, default) == IF v.nan \/ v.n = 0 THEN default ELSE v.n

\* setupWebSocket (lines 210-236): nothing when the backend is not known to
\* be available, else a new WebSocket.
setupWebSocket(p) ==
    IF ~p.isBackendAvailable THEN p
    ELSE [p EXCEPT !.websocket = "CONNECTING"]

\* updateCounter(count) (lines 263-278)
updateCounter(p, count) == [p EXCEPT !.counter = count]

\* updateSpotsLeft(spots) (lines 280-288)
updateSpotsLeft(p, spots) == [p EXCEPT !.spots = DecString(spots)]

\* DOMContentLoaded: new ZintleWaitlist() (lines 445-447) runs the
\* constructor and init() (lines 163-177) to the end: each async method runs
\* up to its first await and init awaits none of them.
PageLoad ==
    /\ page.pc = "unloaded"
    /\ LET constructed == [page EXCEPT !.isBackendAvailable = FALSE,
                                       !.websocket = "null"]
           checking == [constructed EXCEPT !.check = "pending"]
           socket == setupWebSocket(checking)
           loading == [socket EXCEPT !.load = "pending"]
           counters == [loading EXCEPT !.counter = 0, !.spots = "500"]
       IN page' = [counters EXCEPT !.pc = "loaded"]
    /\ statsAnswer' = NoStats
    /\ UNCHANGED <<store, mailer, sockets, req, hist, lastDone, upd, rep,
                   now, ana, dash>>

\* The answer GET /api/stats (part_000 lines 70-83) gives now.
StatsNow ==
    [status |-> 200, totalSignups |-> UserCount,
     spotsLeft |-> SpotsLeft(UserCount)]

\* The fetch of checkBackendAvailability settles (lines 181-188): the
\* server answers 200 or 500, or cannot be reached.
PageCheckSettles ==
    /\ page.check = "pending"
    /\ \E outcome \in {"200", "500", "unreachable"} :
         page' = [page EXCEPT
                    !.check = outcome,
                    !.isBackendAvailable = (outcome = "200")]
    /\ statsAnswer' = NoStats
    /\ UNCHANGED <<store, mailer, sockets, req, hist, lastDone, upd, rep,
                   now, ana, dash>>

\* The fetch of loadDynamicData settles (lines 239-260): the try block on an
\* answer, the catch block when the server cannot be reached.
PageLoadSettles ==
    /\ page.load = "pending"
    /\ \/ \E data \in {StatsNow, [NoStats EXCEPT !.status = 500]} :
            LET totalSignups ==
                    OrElse(ParseField(data, "totalSignups"), 0)
                spotsLeft ==
                    OrElse(ParseField(data, "spotsLeft"), TotalSpots)
                shown == updateSpotsLeft(
                             updateCounter(page, totalSignups), spotsLeft)
            IN page' = [shown EXCEPT !.load = "done", !.data = data,
                                     !.isBackendAvailable = TRUE]
       \/ page' = [updateSpotsLeft(updateCounter(page, fallbackCount),
                                   fallbackSpots)
                     EXCEPT !.load = "failed",
                            !.isBackendAvailable = FALSE]
    /\ statsAnswer' = NoStats
    /\ UNCHANGED <<store, mailer, sockets, req, hist, lastDone, upd, rep,
                   now, ana, dash>>

\* One landing page open while visitors sign up; the mailer is in demo mode.
InitClient == InitSockets

NextClient ==
    \/ \E r \in Reqs, b \in ValidBodies : Receive(r, b)
    \/ \E r \in Reqs : FindUnique(r)
    \/ \E r \in Reqs : Transaction(r)
    \/ \E r \in Reqs : Count(r)
    \/ \E r \in Reqs : SendWelcome(r)
    \/ \E r \in Reqs : Respond(r)
    \/ PageLoad
    \/ PageCheckSettles
    \/ PageLoadSettles

SpecClient == InitClient /\ [][NextClient]_vars

\* The survey form's submissions: complete bodies that differ in the
\* interest level only, from 0 to 6.
Levels == {0, 10, 20, 30, 40, 50, 60}

LevelBodies ==
    {Body(Fields, "a@x.com", "design", "finding_clients", l) : l \in Levels}

InitForm == InitSockets /\ seeded = 0

NextForm ==
    \/ \E r \in Reqs, b \in LevelBodies : Receive(r, b)
    \/ \E r \in Reqs : FindUnique(r)
    \/ \E r \in Reqs : Transaction(r)
    \/ \E r \in Reqs : Count(r)
    \/ \E r \in Reqs : SendWelcome(r)
    \/ \E r \in Reqs : Respond(r)

SpecForm == InitForm /\ [][NextForm]_vars

\* ---------------------------------------------------------------- claims
Done(r) == req[r].pc = "done"

Valid(r) == waitlistSchema(req[r].body)

SameEmail(r1, r2) == req[r1].body.email = req[r2].body.email

\* Math.max(500 - n, 0), spelled out for the properties.
Floor500(n) == IF n >= TotalSpots THEN 0 ELSE TotalSpots - n

\* The broadcastUpdate calls made by request r, in order.
CallsBy(r) == SelectSeq(broadcasts, LAMBDA e : e.by = r)

\* C1: no two persisted users share an email (the added rows have pairwise
\* different emails, none of them a seeded one), and no step overwrites,
\* modifies or removes a persisted user, under every interleaving of
\* POST /api/waitlist requests.
C1_UniqueEmails ==
    /\ [](/\ Cardinality({u.email : u \in users}) = Cardinality(users)
          /\ \A u \in users : u.email \notin SeedEmails[seeded])
    /\ [][seeded' = seeded /\ users \subseteq users']_vars

\* Two requests with the same email both got null from findUnique; both were
\* answered and exactly one user holds the email.
C1_Witness ==
    \E r1, r2 \in Reqs :
        /\ r1 # r2 /\ Done(r1) /\ Done(r2) /\ SameEmail(r1, r2)
        /\ hist[r1].foundNull /\ hist[r2].foundNull
        /\ req[r1].status = 201
        /\ Cardinality({u \in users : u.email = req[r1].body.email}) = 1

\* C2: when two requests with the same email both pass the findUnique
\* check before either inserts, and the store fails no query, each is
\* answered 201 or 409, and once both are answered one got 201 and the
\* other 409.
C2_RaceLoserConflict ==
    \A r1, r2 \in Reqs :
        ( /\ r1 # r2 /\ SameEmail(r1, r2)
          /\ hist[r1].foundNull /\ hist[r2].foundNull
          /\ ~hist[r1].fault /\ ~hist[r2].fault )
        => /\ Done(r1) => req[r1].status \in {201, 409}
           /\ (Done(r1) /\ Done(r2))
                 => {req[r1].status, req[r2].status} = {201, 409}

\* C3: in every state each user added has a response for each of the three
\* questions and every response added belongs to a user added; a
\* transaction that was rejected left neither its user row nor any of its
\* response rows.
C3_AllOrNothing ==
    /\ \A q \in QIDs :
          {u.id : u \in users}
             \subseteq {x.userId : x \in {y \in responses : y.questionId = q}}
    /\ {x.userId : x \in responses} \subseteq {u.id : u \in users}
    /\ \A r \in Reqs :
          (hist[r].txId # 0 /\ req[r].userId = 0)
          => /\ \A u \in users : u.id # hist[r].txId
             /\ \A x \in responses : x.userId # hist[r].txId

\* A transaction failed at a response insert and its request was answered.
C3_Witness ==
    \E r \in Reqs :
        /\ Done(r) /\ hist[r].fault /\ hist[r].txId # 0
        /\ req[r].userId = 0 /\ req[r].status = 500

\* C4: a valid submission with an unregistered email that runs with no other
\* request in flight and no store failure is answered 201, and a
\* GET /api/stats right after it reports totalSignups one higher than before
\* the submission and spotsLeft = max(500 - totalSignups, 0).
C4_SubmitThenStats ==
    \A r \in Reqs :
        ( /\ lastDone = r /\ hist[r].alone /\ Valid(r)
          /\ hist[r].foundNull /\ ~hist[r].fault )
        => /\ req[r].status = 201
           /\ statsAnswer.status = 200
              => /\ statsAnswer.totalSignups = hist[r].before + 1
                 /\ statsAnswer.spotsLeft
                       = Floor500(statsAnswer.totalSignups)

\* The stats answer right after a lone successful signup past the cap.
C4_Witness ==
    \E r \in Reqs :
        /\ lastDone = r /\ hist[r].alone /\ req[r].status = 201
        /\ statsAnswer.status = 200
        /\ statsAnswer.totalSignups > TotalSpots
        /\ statsAnswer.spotsLeft = 0

\* One request ran alone and the next one arrived after it was answered.
InSequence(r1, r2) ==
    /\ r1 # r2 /\ hist[r1].alone /\ hist[r2].alone /\ hist[r2].pred = r1
    /\ Done(r1) /\ Done(r2)

\* C5: the same valid email submitted twice in sequence, the first answered
\* 201: the second is answered 409 (unless the store fails its lookup) and
\* the user count after both is one more than before the first.
C5_SecondIsConflict ==
    \A r1, r2 \in Reqs :
        ( /\ InSequence(r1, r2) /\ Valid(r1) /\ Valid(r2)
          /\ SameEmail(r1, r2) /\ req[r1].status = 201
          /\ ~hist[r2].fault /\ lastDone = r2 )
        => /\ req[r2].status = 409
           /\ TableSize = hist[r1].before + 1

C5_Witness ==
    \E r1, r2 \in Reqs :
        /\ InSequence(r1, r2) /\ SameEmail(r1, r2) /\ lastDone = r2
        /\ req[r1].status = 201 /\ req[r2].status = 409
        /\ hist[r1].before = 0 /\ TableSize = 1

\* C6: the step that answers a request 400 or 409 leaves both tables, the
\* inboxes and the broadcast log as they were, and that request never ran a
\* transaction, never called the mail transport and never broadcast.
C6_RejectedChangesNothing ==
    [][\A r \in Reqs :
          (req[r].status = 0 /\ req'[r].status \in {400, 409})
          => /\ users' = users /\ responses' = responses
             /\ inbox' = inbox /\ broadcasts' = broadcasts
             /\ hist'[r].txId = 0 /\ req'[r].userId = 0
             /\ req'[r].sends = <<>> /\ ~req'[r].emailSent
             /\ CallsBy(r)' = <<>>]_vars

\* A request was answered 409 and the tables hold just the rows of the
\* signup that registered the email.
C6_Witness ==
    \E r1, r2 \in Reqs :
        /\ req[r1].status = 201 /\ req[r2].status = 409
        /\ users = {[id |-> req[r1].userId, email |-> req[r2].body.email]}
        /\ Cardinality(responses) = 3

\* C7: a successful signup that ran with no other request in flight returns
\* as position the user count right after its insert, which is one more
\* than the count when it arrived (1 for the first signup ever).
C7_PositionIsCount ==
    \A r \in Reqs :
        (Done(r) /\ req[r].status = 201 /\ hist[r].alone)
        => /\ req[r].position = hist[r].afterInsert
           /\ req[r].position = hist[r].before + 1

\* The first and the second signup into an empty store, one after the other.
C7_Witness ==
    \E r1, r2 \in Reqs :
        /\ InSequence(r1, r2)
        /\ req[r1].status = 201 /\ req[r1].position = 1
        /\ req[r2].status = 201 /\ req[r2].position = 2

\* The welcome email of request r failed: the last transport call reported
\* an error or threw.
MailFailed(r) ==
    /\ req[r].pc \in {"respond", "done"}
    /\ req[r].sends # <<>>
    /\ req[r].sends[Len(req[r].sends)].out # "ok"

\* C8: once the welcome email of a request has failed, its user and three
\* responses stay persisted, and the request is answered 201 with
\* emailSent false after both broadcasts were sent.
C8_MailFailureKeepsSignup ==
    \A r \in Reqs :
        MailFailed(r)
        => /\ [id |-> req[r].userId, email |-> req[r].body.email] \in users
           /\ \A k \in 1..3 :
                 ResponseRows(req[r].userId, req[r].body)[k] \in responses
           /\ Done(r) => /\ req[r].status = 201
                          /\ ~req[r].emailSent
                          /\ Len(CallsBy(r)) = 2

\* A signup answered 201 whose only transport call threw, and one whose
\* retry reported an error.
C8_Witness ==
    /\ \E r \in Reqs :
          /\ Done(r) /\ req[r].status = 201 /\ ~req[r].emailSent
          /\ Len(req[r].sends) = 1 /\ req[r].sends[1].out = "throw"
    /\ \E r \in Reqs :
          /\ Done(r) /\ req[r].status = 201 /\ ~req[r].emailSent
          /\ Len(req[r].sends) = 2 /\ req[r].sends[2].out = "other"

\* C9: a request answered 201 made exactly two broadcastUpdate calls, one
\* right after the other: counter_update with the count it read (its
\* position), then spots_update with max(500 - count, 0); any other request
\* made none.
C9_TwoBroadcasts ==
    /\ \A r \in Reqs :
          IF req[r].status = 201
          THEN /\ Len(CallsBy(r)) = 2
               /\ CallsBy(r)[1].msg
                     = [type |-> "counter_update",
                        value |-> req[r].position]
               /\ CallsBy(r)[2].msg
                     = [type |-> "spots_update",
                        value |-> Floor500(req[r].position)]
               /\ req[r].position = req[r].totalSignups
          ELSE CallsBy(r) = <<>>
    /\ \A i \in 1..Len(broadcasts) :
          broadcasts[i].msg.type = "counter_update"
          => /\ i < Len(broadcasts)
             /\ broadcasts[i + 1].by = broadcasts[i].by

\* Two signups were answered 201, one below and one above the cap.
C9_Witness ==
    /\ Len(broadcasts) = 4
    /\ broadcasts[2].msg.value = 0
    /\ \E r \in Reqs : req[r].status = 201 /\ req[r].position > TotalSpots

\* The messages of the broadcasts made while connection c was OPEN.
Due(c) ==
    LET mine == SelectSeq(broadcasts, LAMBDA e : c \in e.open)
    IN [i \in 1..Len(mine) |-> mine[i].msg]

\* C10: every connection has been sent exactly the messages of the
\* broadcasts made while it was OPEN, in order: none from before it opened
\* or after it started closing, and none twice.
C10_OnlyOpenReceive ==
    \A c \in Clients : inbox[c] = Due(c)

\* Across two broadcasts: one connection got the first and was skipped by
\* the second while still in wss.clients; another one opened in between and
\* got only the second.
C10_Witness ==
    /\ Len(broadcasts) = 4
    /\ \E c1, c2 \in Clients :
          /\ c1 \in broadcasts[1].open /\ c1 \notin broadcasts[3].open
          /\ c1 \in wssClients /\ Len(inbox[c1]) = 2
          /\ c2 \notin broadcasts[1].open /\ c2 \in broadcasts[3].open
          /\ Len(inbox[c2]) = 2
          /\ inbox[c2][1] = broadcasts[3].msg

\* Number.prototype.toString on the interest levels the bodies carry (in
\* tenths), by its table.
StringForm ==
    (10 :> "1") @@ (20 :> "2") @@ (25 :> "2.5") @@ (30 :> "3")
    @@ (40 :> "4") @@ (50 :> "5")

\* C11: in every state each user added owns exactly three responses, exactly
\* one per questionId in {primary_skill, biggest_challenge, interest_level},
\* and its interest_level answer is the string form of the interestLevel
\* submitted by the request that created it.
C11_ThreePerUser ==
    \A u \in users :
        /\ Cardinality({x \in responses : x.userId = u.id}) = 3
        /\ \A q \in {"primary_skill", "biggest_challenge", "interest_level"} :
              Cardinality({x \in responses :
                              x.userId = u.id /\ x.questionId = q}) = 1
        /\ \E r \in Reqs :
              /\ req[r].userId = u.id
              /\ [userId |-> u.id, questionId |-> "interest_level",
                  answer |-> StringForm[req[r].body.interestLevel]]
                    \in responses

\* Two users are stored, one who submitted 2.5 and one who submitted 5.
C11_Witness ==
    /\ Cardinality(users) = 2
    /\ \E x, y \in responses :
          /\ x.questionId = "interest_level" /\ x.answer = "2.5"
          /\ y.questionId = "interest_level" /\ y.answer = "5"

\* No other request carries the email of request r.
OnlyOneWith(r) ==
    \A q \in Reqs \ {r} : req[q].pc = "idle" \/ ~SameEmail(r, q)

\* C12: a valid submission that arrives when 500 or more users are stored,
\* with an email no other request carries and no store failure, is answered
\* 201 with a position above 500 and broadcasts spots 0; GET /api/stats
\* reports spotsLeft 0 from 500 users on; no spots value is ever negative.
C12_CapNeverRejects ==
    /\ \A r \in Reqs :
          ( /\ Done(r) /\ Valid(r) /\ ~hist[r].fault
            /\ hist[r].before >= TotalSpots /\ OnlyOneWith(r) )
          => /\ req[r].status = 201
             /\ req[r].position > TotalSpots
             /\ CallsBy(r)[2].msg = [type |-> "spots_update", value |-> 0]
    /\ (statsAnswer.status = 200 /\ TableSize >= TotalSpots)
          => statsAnswer.spotsLeft = 0
    /\ statsAnswer.spotsLeft >= 0
    /\ \A i \in 1..Len(broadcasts) :
          broadcasts[i].msg.type = "spots_update"
          => broadcasts[i].msg.value >= 0

\* The 501st signup was answered 201 and GET /api/stats then reported 501
\* signups and 0 spots left.
C12_Witness ==
    /\ \E r \in Reqs :
          /\ req[r].status = 201 /\ hist[r].before = TotalSpots
          /\ req[r].position = TotalSpots + 1
    /\ statsAnswer = [status |-> 200, totalSignups |-> TotalSpots + 1,
                      spotsLeft |-> 0]

C15_DemoModeSucceeds ==
    ~isConfigured
    => \A r \in Reqs :
          /\ req[r].sends = <<>>
          /\ req[r].pc # "retry"
          /\ (req[r].pc = "respond" \/ req[r].status = 201)
                => req[r].emailSent

\* In demo mode two signups with different emails and profiles were
\* answered 201 with emailSent true and no transport call.
C15_Witness ==
    /\ ~isConfigured
    /\ \E r1, r2 \in Reqs :
          /\ ~SameEmail(r1, r2)
          /\ req[r1].status = 201 /\ req[r1].emailSent
          /\ req[r2].status = 201 /\ req[r2].emailSent
          /\ req[r1].sends = <<>> /\ req[r2].sends = <<>>

\* sendWelcomeEmail of request r has returned.
MailReturned(r) == req[r].pc = "respond" \/ req[r].status = 201

\* C16: a configured sendWelcomeEmail calls the transport at most twice; a
\* second send was made exactly when the first reported that the domain is
\* not verified, and it used the sender onboarding@resend.dev; the result
\* is success exactly when the last send made reported no error.
C16_RetryOnceOnUnverifiedDomain ==
    isConfigured
    => \A r \in Reqs :
          LET s == req[r].sends
          IN /\ Len(s) <= 2
             /\ Len(s) = 2
                   => /\ s[1].out = "domain"
                      /\ s[2].from = "onboarding@resend.dev"
             /\ MailReturned(r)
                   => /\ Len(s) >= 1
                      /\ (Len(s) = 2) <=> (s[1].out = "domain")
                      /\ req[r].emailSent <=> (s[Len(s)].out = "ok")

\* One signup's welcome email went out on the retry after a
\* domain-not-verified error; another's first send reported another error
\* and was not retried.
C16_Witness ==
    /\ isConfigured /\ ~isDevelopment
    /\ \E r1, r2 \in Reqs :
          /\ req[r1].status = 201 /\ req[r1].emailSent
          /\ Len(req[r1].sends) = 2 /\ req[r1].sends[1].out = "domain"
          /\ req[r1].sends[1].from # req[r1].sends[2].from
          /\ req[r1].sends[2].out = "ok"
          /\ req[r2].status = 201 /\ ~req[r2].emailSent
          /\ Len(req[r2].sends) = 1 /\ req[r2].sends[1].out = "other"

\* The body of request r is valid once its interestLevel is replaced by 3.
OtherwiseValid(r) ==
    /\ "interestLevel" \in req[r].body.has
    /\ waitlistSchema([req[r].body EXCEPT !.interestLevel = 30])

\* C13: a received submission that is otherwise valid has been answered 400
\* when its interestLevel is 0 or 6, and is never answered 400 when its
\* interestLevel is 1, 2, 3, 4 or 5.
C13_InterestLevelRange ==
    \A r \in Reqs :
        (req[r].pc # "idle" /\ OtherwiseValid(r))
        => /\ req[r].body.interestLevel \in {0, 60}
                 => (Done(r) /\ req[r].status = 400)
           /\ req[r].body.interestLevel \in {10, 20, 30, 40, 50}
                 => req[r].status # 400

\* A submission with interestLevel 0 was answered 400 and one with
\* interestLevel 1 was answered 201.
C13_Witness ==
    \E r1, r2 \in Reqs :
        /\ OtherwiseValid(r1) /\ req[r1].body.interestLevel = 0
        /\ req[r1].status = 400
        /\ req[r2].body.interestLevel = 10 /\ req[r2].status = 201

\* sendProgressUpdate has returned to the handler.
UpdReturned == upd.pc \in {"respond", "done"} /\ "sent" \in upd.result.has

\* The number of batches of at most 50 that n recipients need.
Ceil50(n) == (n + 49) \div 50

\* The recipients of a sequence of transport calls, in order.
RECURSIVE AllTo(_)
AllTo(calls) ==
    IF calls = <<>> THEN <<>> ELSE Head(calls).to \o AllTo(Tail(calls))

\* C17: a configured sendProgressUpdate never hands the transport more than
\* 50 recipients at once or a recipient out of list order, and once it has
\* returned, for n recipients it made exactly ceil(n/50) calls whose
\* recipients, put end to end, are the recipient list, and collected n
\* per-recipient results.
C17_BatchesOfFifty ==
    isConfigured
    => /\ \A k \in 1..Len(upd.calls) :
             Len(upd.calls[k].to) >= 1 /\ Len(upd.calls[k].to) <= 50
       /\ AllTo(upd.calls)
             = SubSeq(upd.emails, 1, Len(AllTo(upd.calls)))
       /\ UpdReturned
             => /\ Len(upd.calls) = Ceil50(Len(upd.emails))
                /\ AllTo(upd.calls) = upd.emails
                /\ Len(upd.results) = Len(upd.emails)

\* 120 recipients were served in batches of 50, 50 and 20 and the result
\* list has 120 entries.
C17_Witness ==
    /\ isConfigured /\ upd.pc = "done" /\ upd.status = 200
    /\ Len(upd.emails) = 120
    /\ Len(upd.calls) = 3
    /\ Len(upd.calls[1].to) = 50 /\ Len(upd.calls[2].to) = 50
    /\ Len(upd.calls[3].to) = 20
    /\ Len(upd.results) = 120

\* The number of recipients of the calls that delivered.
RECURSIVE Delivered(_)
Delivered(calls) ==
    IF calls = <<>> THEN 0
    ELSE (IF Head(calls).out = "ok" THEN Len(Head(calls).to) ELSE 0)
           + Delivered(Tail(calls))

\* C18: once a configured sendProgressUpdate has returned, every recipient
\* was handed to the transport whatever the earlier batches did, the k-th
\* result is the k-th recipient with success exactly when its batch was
\* delivered, sent is the number of recipients of delivered batches, and
\* the request is answered 200.
C18_FailedBatchGoesOn ==
    (isConfigured /\ UpdReturned)
    => /\ Len(AllTo(upd.calls)) = Len(upd.emails)
       /\ \A k \in 1..Len(upd.calls) :
             \A j \in 1..Len(upd.calls[k].to) :
                upd.results[50 * (k - 1) + j]
                   = [email |-> upd.calls[k].to[j],
                      success |-> upd.calls[k].out = "ok"]
       /\ upd.result.sent = Delivered(upd.calls)
       /\ upd.pc = "done"
             => upd.status = 200 /\ "success" \in upd.json.has

\* Of three batches the first reported an error and the third threw; the
\* request was answered 200 with sent 50 of 120.
C18_Witness ==
    /\ isConfigured /\ upd.pc = "done" /\ upd.status = 200
    /\ Len(upd.calls) = 3
    /\ upd.calls[1].out = "error" /\ upd.calls[2].out = "ok"
    /\ upd.calls[3].out = "throw"
    /\ upd.json.sent = 50 /\ upd.json.total = 120
    /\ ~upd.results[1].success /\ upd.results[51].success
    /\ ~upd.results[120].success

\* C19: every POST /api/send-update answered 200 carries success, sent,
\* total and message, with total the number of registered users and
\* sent <= total, with and without mail credentials.
C19_UpdateCounts ==
    upd.status = 200
    => /\ upd.json.has = {"success", "sent", "total", "message"}
       /\ upd.json.total = TableSize
       /\ upd.json.sent <= upd.json.total

\* C20: a comprehensive report whose queries all succeeded is answered 200;
\* its weeklyGrowthRate is "New" whenever totalUsers - usersThisWeek is
\* zero; and with zero users its averageInterest is 0, its two measured
\* funnel rates are "0%" and its retentionPotential and completionRate are
\* "0".
C20_ZeroDenominators ==
    /\ (rep.pc = "done" /\ ~rep.faulted) => rep.answer.status = 200
    /\ rep.answer.status = 200
         => /\ rep.answer.totalUsers - rep.answer.usersThisWeek = 0
                  => rep.answer.weeklyGrowthRate = "New"
            /\ rep.answer.totalUsers = 0
                  => /\ rep.answer.averageInterest.num = 0
                     /\ rep.answer.startedRate = "0%"
                     /\ rep.answer.completedRate = "0%"
                     /\ rep.answer.retentionPotential = "0"
                     /\ rep.answer.completionRate = "0"

\* A report on the empty store was answered 200 with the sentinels.
C20_Witness ==
    /\ users = {} /\ seeded = 0
    /\ rep.answer.status = 200 /\ rep.answer.totalUsers = 0
    /\ rep.answer.weeklyGrowthRate = "New"
    /\ rep.answer.completedRate = "0%"
    /\ rep.answer.retentionPotential = "0"

\* The number of the users with the given ids that were created on UTC
\* day d (the seeded rows were created on day 0).
CreatedOn(d, ids) ==
    (IF d = 0 THEN seeded ELSE 0)
      + Cardinality({id \in ids : createdAt[id] \div 2 = d})

\* C21: the dailySignups of every comprehensive report has exactly 30
\* entries; the k-th is for the UTC date 30 - k days before the date of
\* today, so the dates run from today - 29 to today in ascending order; and
\* each entry's signups is the number of users stored when the histogram
\* was read that were created on its date (0 when there is none).
C21_ThirtyDailyBuckets ==
    rep.answer.status = 200
    => LET daily == rep.answer.dailySignups
       IN /\ Len(daily) = 30
          /\ \A k \in 1..30 :
                /\ daily[k].date = (rep.today \div 2) - 30 + k
                /\ daily[k].signups = CreatedOn(daily[k].date, rep.seen)

\* Three users signed up on the current UTC day, one of them through a
\* signup answered 201, and the report shows 3 users and a today bucket
\* of 3.
C21_Witness ==
    /\ rep.answer.status = 200 /\ rep.answer.totalUsers = 3
    /\ req[1].status = 201
    /\ rep.answer.dailySignups[30].signups = 3
    /\ rep.answer.dailySignups[29].signups = 0

\* The interest_level answers stored.
StoredInterest ==
    {x.answer : x \in {y \in responses : y.questionId = "interest_level"}}
      \cup (IF seeded > 0 THEN {"3"} ELSE {})

\* C22: a comprehensive report that counted at least one stored user
\* shows retentionPotential 100 when every stored interest_level answer is
\* "4" or "5" and 0 when every one is "1".
C22_RetentionIsShare ==
    (rep.answer.status = 200 /\ rep.answer.totalUsers >= 1)
    => /\ StoredInterest \subseteq {"4", "5"}
             => rep.answer.retentionPotential = "100.0"
       /\ StoredInterest = {"1"}
             => rep.answer.retentionPotential = "0.0"

\* The number of stored users whose interest_level answer is 4 or more.
Keen ==
    Cardinality({x \in responses : /\ x.questionId = "interest_level"
                                   /\ ParseInt(x.answer) >= 4})

\* C22 (amended): a comprehensive report that counted at least one stored
\* user, with no signup committed since that count, shows
\* retentionPotential 100.0 when every stored interest_level answer is "4"
\* or "5", 0.0 when every one is "1", and in general the share, in percent
\* to one decimal, of the users whose interest_level answer is 4 or more.
C22_RetentionOnStillStore ==
    (/\ rep.answer.status = 200
     /\ rep.answer.totalUsers >= 1
     /\ rep.answer.totalUsers = UserCount)
    => /\ StoredInterest \subseteq {"4", "5"}
             => rep.answer.retentionPotential = "100.0"
       /\ StoredInterest = {"1"}
             => rep.answer.retentionPotential = "0.0"
       /\ rep.answer.retentionPotential = ToFixed(100 * Keen, UserCount, 1)

\* Two users stored, one answered "4" and one "5": the report says 100.0.
C22_Witness ==
    /\ rep.answer.status = 200 /\ rep.answer.totalUsers = 2
    /\ UserCount = 2
    /\ StoredInterest = {"4", "5"}
    /\ rep.answer.retentionPotential = "100.0"

\* The sum of the signups of a daily histogram.
RECURSIVE SumSignups(_)
SumSignups(daily) ==
    IF daily = <<>> THEN 0
    ELSE Head(daily).signups + SumSignups(Tail(daily))

\* C28: in a comprehensive report computed while no signup request was
\* made, the signups of the 30 dailySignups entries add up to
\* usersThisMonth.
C28_BucketsSumToMonth ==
    (rep.answer.status = 200 /\ \A r \in Reqs : req[r].pc = "idle")
    => SumSignups(rep.answer.dailySignups) = rep.answer.usersThisMonth

\* The store failed no query of a signup.
NoFault == \A r \in Reqs : ~hist[r].fault

\* C25: any two signups answered 201 were given different positions, and
\* the n signups answered 201 into an empty store, none of which met a
\* store failure, were given exactly the positions 1..n.
C25_DistinctPositions ==
    LET won == {r \in Reqs : req[r].status = 201}
    IN /\ \A r1, r2 \in won :
             r1 # r2 => req[r1].position # req[r2].position
       /\ (seeded = 0 /\ NoneInFlight /\ NoFault)
             => {req[r].position : r \in won} = 1..Cardinality(won)

\* The values of the counter_update messages broadcast so far, in order.
CounterUpdates ==
    LET calls == SelectSeq(broadcasts,
                           LAMBDA e : e.msg.type = "counter_update")
    IN [k \in 1..Len(calls) |-> calls[k].msg.value]

\* The value of the spots_update message broadcast last.
LastSpotsUpdate ==
    LET calls == SelectSeq(broadcasts,
                           LAMBDA e : e.msg.type = "spots_update")
    IN calls[Len(calls)].msg.value

\* C26: the counts of the counter_update messages are broadcast in
\* non-decreasing order, and once no signup is in flight (and none met a
\* store failure) the last counter_update and the last spots_update carry
\* the number of stored users and the spots it leaves.
C26_CountsInOrder ==
    LET counts == CounterUpdates
    IN /\ \A i, j \in 1..Len(counts) : i < j => counts[i] <= counts[j]
       /\ (NoneInFlight /\ NoFault /\ counts # <<>>)
             => /\ counts[Len(counts)] = UserCount
                /\ LastSpotsUpdate = Floor500(UserCount)

\* The user that request r's transaction committed is stored.
Committed(r) == \E u \in users : u.id = hist[r].txId

Got(c, m) == \E i \in 1..Len(inbox[c]) : inbox[c][i] = m

\* C23: a request during whose broadcasts a send to one connection failed
\* is still answered 201 with its position, and every other connection
\* that was OPEN has been sent both of its messages.
C23_BroadcastFailureNonFatal ==
    \A r \in Reqs :
       hist[r].threw # 0
       => /\ req[r].status = 201
          /\ req[r].position = req[r].totalSignups
          /\ Len(CallsBy(r)) = 2
          /\ \A k \in 1..Len(CallsBy(r)) :
                \A c \in CallsBy(r)[k].open \ {hist[r].threw} :
                   Got(c, CallsBy(r)[k].msg)

\* A step of GET /api/stats, POST /api/send-update, GET /api/analytics,
\* GET /api/analytics/comprehensive or GET /dashboard.
ReadOnlyStep ==
    \/ statsAnswer'.status # 0
    \/ upd' # upd
    \/ rep' # rep
    \/ ana' # ana
    \/ dash' # dash

\* C24: no step removes or changes a stored user or response (the seeded
\* signups stay, every row and every createdAt stored before the step is
\* stored after it), and the steps of GET /api/stats, /api/analytics,
\* /api/analytics/comprehensive, /dashboard and POST /api/send-update leave
\* both tables as they were.
C24_StoreOnlyGrows ==
    [][/\ seeded' = seeded
       /\ users \subseteq users'
       /\ responses \subseteq responses'
       /\ \A id \in DOMAIN createdAt :
             id \in DOMAIN createdAt' /\ createdAt'[id] = createdAt[id]
       /\ ReadOnlyStep => (users' = users /\ responses' = responses)]_vars

\* The dashboard, and the comprehensive report it fetched, were answered 200
\* while a signup was added: the report counted one user, the dashboard
\* listed two, and the stats answer on its way says two.
C24_Witness ==
    /\ statsAnswer.status = 200 /\ statsAnswer.totalSignups = 2
    /\ seeded = 0
    /\ rep.answer.status = 200 /\ rep.answer.totalUsers = 1
    /\ dash.status = 200 /\ Len(dash.users) = 2
    /\ req[1].status = 201

\* C29: once the page has loaded and both of its requests have settled,
\* with the backend answering the availability check, the page has opened
\* its WebSocket (the only way the broadcasts made from then on reach the
\* displayed counter and spots).
C29_SocketOpened ==
    (page.pc = "loaded" /\ page.check = "200" /\ page.load = "done")
    => page.websocket # "null"

\* C30: after loadDynamicData has read the answer of GET /api/stats, the
\* page shows the spotsLeft of that answer, whatever value from 0 to 500 it
\* is, and the counter runs to its totalSignups.
C30_ShowsWhatStatsSay ==
    (page.load = "done" /\ page.data.status = 200)
    => /\ page.spots = DecString(page.data.spotsLeft)
       /\ page.counter = page.data.totalSignups

====
